---- MODULE Spec2Model ----
(***************************************************************************)
(* Webhook intake and member state transitions of member-retention-guard.  *)
(*                                                                         *)
(* The webhook route (POST) verifies the signature of a raw body, answers  *)
(* the sender, and hands the parsed event to processWebhookEvent, whose    *)
(* handlers read and upsert rows of the members table.  The members table  *)
(* is a set of rows with a uniqueness constraint on (experience_id,        *)
(* user_id); every await on the store is a point where other events'       *)
(* store operations may interleave.                                        *)
(***************************************************************************)
EXTENDS Integers, Sequences, FiniteSets, TLC

\* ------------------------------------------------------------------ bounds
MaxRequests == 2      \* webhook requests received in one behaviour of Spec
MaxEvents == 3        \* events received in one behaviour of SpecMember
MaxSerial == 3        \* events received in one behaviour of SpecSerial
MaxTenants == 2       \* events received in one behaviour of SpecTenants
MaxLive == 2          \* events received in one behaviour of SpecLive
MaxTime == 1          \* last value of the wall clock
MaxDays == 2          \* days spanned by the times of SpecDays
MaxCalls == 2         \* predictChurn calls made in one behaviour of SpecScorer
MaxBatch == 2         \* member ids in the request of SpecBatch
MaxCached == 3        \* predictChurn calls in SpecCache
MaxHex == 3           \* hex digits of a signature in SpecCompare
MaxHours == 1         \* cache durations the clock of the scoring module spans

\* ------------------------------------------------------------- vocabulary
Absent == "<absent>"  \* a JSON property that is not there (undefined)
\* member keys, as (experience_id, user_id): two members of one experience
\* and one of them again in a second experience
Keys == {<<"e1", "u1">>, <<"e1", "u2">>, <<"e2", "u1">>}

EventTypes ==
    {"membership.went_valid", "membership.went.valid",
     "membership.went_invalid", "membership.went.invalid",
     "payment.succeeded", "payment.success",
     "membership.cancelled"}

SenderSecret == "whsec_live"
\* process.env.WHOP_WEBHOOK_SECRET: unset, set to the empty string, or set
Secrets == {Absent, "", SenderSecret}

Null == 0 - 1         \* SQL NULL / JS null in a timestamp or count column
Omitted == 0 - 2      \* a column the upsert payload does not mention

\* ------------------------------------------------------------- raw bodies
\* A raw body is the exact text the sender signed.  json says how
\* JSON.parse fares on it: "bad" (throws), "null" (parses to null),
\* "object" (parses to an object with the fields below).
RawBody(j, t, d, u, e) ==
    [json |-> j, type |-> t, data |-> d, user_id |-> u, experience_id |-> e,
     form |-> "compact"]

\* the same JSON value serialized differently (other whitespace): other
\* bytes, the same parse
Reserialized(rawBody) ==
    [rawBody EXCEPT !.form = IF @ = "compact" THEN "spaced" ELSE "compact"]

\* one member's events, in the spellings the sender uses today
MemberEventTypes ==
    {"membership.went_valid", "membership.went_invalid", "payment.succeeded",
     "membership.cancelled"}

MemberBodies == {RawBody("object", t, TRUE, "u1", "e1") : t \in MemberEventTypes}

\* one member's events in every spelling
SpellingBodies == {RawBody("object", t, TRUE, "u1", "e1") : t \in EventTypes}

\* the recognized events of every member key
TenantEventTypes ==
    {"membership.went_valid", "membership.went_invalid", "payment.succeeded"}

TenantBodies ==
    {RawBody("object", t, TRUE, k[2], k[1]) : t \in TenantEventTypes, k \in Keys}

MalformedBodies ==
    {RawBody("bad", Absent, FALSE, Absent, Absent),
     RawBody("null", Absent, FALSE, Absent, Absent),
     RawBody("object", "payment.succeeded", FALSE, Absent, Absent),
     RawBody("object", "payment.succeeded", TRUE, Absent, "e1"),
     RawBody("object", "membership.went_valid", TRUE, "", "e1"),
     RawBody("object", "membership.went_invalid", TRUE, "u1", Absent)}

IntakeBodies == SpellingBodies \cup MalformedBodies

\* JSON.parse(rawBody)
JSONparse(rawBody) ==
    [threw |-> rawBody.json = "bad",
     isNull |-> rawBody.json = "null",
     type |-> rawBody.type,
     hasData |-> rawBody.data,
     user_id |-> rawBody.user_id,
     experience_id |-> rawBody.experience_id]

\* ------------------------------------------------------------- signatures
\* createHmac("sha256", secret).update(payload).digest("hex"): a value that
\* is determined by, and determines, the pair (secret, payload).
Hmac(secret, payload) == [kind |-> "hmac", key |-> secret, msg |-> payload]

TamperedBody == RawBody("object", "payment.succeeded", TRUE, "u2", "e2")

NoSignature == [kind |-> "none", key |-> "", msg |-> TamperedBody]
EmptySignature == [kind |-> "empty", key |-> "", msg |-> TamperedBody]
GarbageSignature == [kind |-> "invalid_signature_12345", key |-> "", msg |-> TamperedBody]

\* the x-whop-signature headers a request carrying rawBody may come with
Signatures(rawBody) ==
    {NoSignature, EmptySignature, GarbageSignature,
     Hmac(SenderSecret, rawBody),
     Hmac(SenderSecret, TamperedBody),
     Hmac("whsec_other", rawBody)}

verifyWebhookSignature_keyOnly(payload, signature, secret) ==
    /\ signature.kind = "hmac"
    /\ signature.key = secret

verifyWebhookSignature_reserialized(payload, signature, secret) ==
    IF signature.kind \in {"none", "empty"}
    THEN FALSE
    ELSE \/ signature = Hmac(secret, payload)
         \/ signature = Hmac(secret, Reserialized(payload))

verifyWebhookSignature(payload, signature, secret) ==
    IF signature.kind \in {"none", "empty"}      \* if (!signature) return false
    THEN FALSE
    ELSE signature = Hmac(secret, payload)

\* ------------------------------------------------------------ the members table
VARIABLES
    secret,     \* process.env.WHOP_WEBHOOK_SECRET
    members,    \* rows of public.members
    tasks,      \* handler invocations started by verified events, in order
    now,        \* the wall clock
    nreq,       \* number of requests received
    lastReq,    \* the last request received and the response it got
    clock,              \* Date.now() as the scoring module reads it
    modelPromise,       \* churn-model: the cached promise (a load), or null
    lastModelLoadTime,  \* churn-model: the time recorded for the last load
    loads,      \* the model loads started, in order
    calls,      \* the predictChurn invocations made, in order
    batch,      \* the batch scoring request and its response
    probe       \* the arguments and the result of one call of a pure function

\* the state of the webhook route and the state of the scoring module
hookVars == <<secret, members, tasks, now, nreq, lastReq>>
scorerVars == <<clock, modelPromise, lastModelLoadTime, loads, calls, batch>>

vars == <<secret, members, tasks, now, nreq, lastReq,
          clock, modelPromise, lastModelLoadTime, loads, calls, batch, probe>>

Falsy(v) == v = Absent \/ v = ""

\* rows of the table with the given key
Matching(rows, user_id, experience_id) ==
    {r \in rows : r.user_id = user_id /\ r.experience_id = experience_id}

Fresh(rows, user_id, experience_id, payload, t) ==
    [id |-> Cardinality(rows) + 1,
     experience_id |-> experience_id,
     user_id |-> user_id,
     status |-> IF payload.status = Absent THEN "invalid" ELSE payload.status,
     last_valid_at |->
         IF payload.last_valid_at = Omitted THEN Null ELSE payload.last_valid_at,
     renewal_count |->
         IF payload.renewal_count = Omitted THEN 0 ELSE payload.renewal_count,
     created_at |-> t]

upsert_insertOnly(rows, user_id, experience_id, payload, t) ==
    rows \cup {Fresh(rows, user_id, experience_id, payload, t)}

upsert_replaces(rows, user_id, experience_id, payload, t) ==
    (rows \ Matching(rows, user_id, experience_id))
        \cup {Fresh(rows, user_id, experience_id, payload, t)}

upsert_nullDefaults(rows, user_id, experience_id, payload, t) ==
    LET hit == Matching(rows, user_id, experience_id)
        merged(r) ==
            [r EXCEPT
               !.status = IF payload.status = Absent THEN @ ELSE payload.status,
               !.last_valid_at =
                   IF payload.last_valid_at = Omitted THEN @ ELSE payload.last_valid_at,
               !.renewal_count =
                   IF payload.renewal_count = Omitted THEN @ ELSE payload.renewal_count]
    IN  IF hit = {}
        THEN rows \cup {[Fresh(rows, user_id, experience_id, payload, t)
                            EXCEPT !.renewal_count =
                                IF payload.renewal_count = Omitted
                                THEN Null ELSE payload.renewal_count]}
        ELSE (rows \ hit) \cup {merged(r) : r \in hit}

\* INSERT ... ON CONFLICT (experience_id, user_id) DO UPDATE SET <columns of
\* the payload>: columns the payload omits keep their value on an existing
\* row and take the column default on a new row.
upsert(rows, user_id, experience_id, payload, t) ==
    LET hit == Matching(rows, user_id, experience_id)
        merged(r) ==
            [r EXCEPT
               !.status = IF payload.status = Absent THEN @ ELSE payload.status,
               !.last_valid_at =
                   IF payload.last_valid_at = Omitted THEN @ ELSE payload.last_valid_at,
               !.renewal_count =
                   IF payload.renewal_count = Omitted THEN @ ELSE payload.renewal_count]
        fresh ==
            [id |-> Cardinality(rows) + 1,
             experience_id |-> experience_id,
             user_id |-> user_id,
             status |-> IF payload.status = Absent THEN "invalid" ELSE payload.status,
             last_valid_at |->
                 IF payload.last_valid_at = Omitted THEN Null ELSE payload.last_valid_at,
             renewal_count |->
                 IF payload.renewal_count = Omitted THEN 0 ELSE payload.renewal_count,
             created_at |-> t]
    IN  IF hit = {}
        THEN rows \cup {fresh}
        ELSE (rows \ hit) \cup {merged(r) : r \in hit}

single_anyExperience(rows, user_id, experience_id) ==
    LET hit == {r \in rows : r.user_id = user_id}
    IN  IF Cardinality(hit) = 1
        THEN (CHOOSE r \in hit : TRUE).renewal_count
        ELSE Null

\* .select("renewal_count").eq(...).eq(...).single(): the one matching row's
\* renewal_count, or no data when there is not exactly one such row
single(rows, user_id, experience_id) ==
    LET hit == Matching(rows, user_id, experience_id)
    IN  IF Cardinality(hit) = 1
        THEN (CHOOSE r \in hit : TRUE).renewal_count
        ELSE Null

\* ---------------------------------------------------------------- handlers
NoPayload == [status |-> Absent, last_valid_at |-> Omitted, renewal_count |-> Omitted]

\* A handler invocation.  pc is the await it is suspended at: "select" (the
\* read is in flight), "selected" (the read has returned data, the handler
\* has not resumed yet), "upsert" (the upsert is in flight), "done".
\* faulted records whether a store operation of this invocation failed.
Task(fn, user_id, experience_id, pc, payload) ==
    [fn |-> fn, user_id |-> user_id, experience_id |-> experience_id,
     pc |-> pc, payload |-> payload, data |-> Null,
     faulted |-> FALSE]

InFlight(task) == task.pc # "done"

handleMembershipValid_statusOnly(user_id, experience_id, t) ==
    Task("handleMembershipValid", user_id, experience_id, "upsert",
         [status |-> "valid", last_valid_at |-> Omitted, renewal_count |-> Omitted])

handleMembershipValid_counts(user_id, experience_id, t) ==
    Task("handleMembershipValid", user_id, experience_id, "upsert",
         [status |-> "valid", last_valid_at |-> t, renewal_count |-> 1])

\* handleMembershipValid up to its await: the upsert payload is built, with
\* new Date() read now, and the upsert is sent
handleMembershipValid(user_id, experience_id, t) ==
    Task("handleMembershipValid", user_id, experience_id, "upsert",
         [status |-> "valid", last_valid_at |-> t, renewal_count |-> Omitted])

handleMembershipInvalid_clears(user_id, experience_id) ==
    Task("handleMembershipInvalid", user_id, experience_id, "upsert",
         [status |-> "invalid", last_valid_at |-> Null, renewal_count |-> 0])

\* handleMembershipInvalid up to its await
handleMembershipInvalid(user_id, experience_id) ==
    Task("handleMembershipInvalid", user_id, experience_id, "upsert",
         [status |-> "invalid", last_valid_at |-> Omitted, renewal_count |-> Omitted])

\* handlePaymentSuccess up to its first await: the read is sent
handlePaymentSuccess(user_id, experience_id) ==
    Task("handlePaymentSuccess", user_id, experience_id, "select", NoPayload)

currentRenewalCount_ignoresExisting(data) == 0

\* existing?.renewal_count || 0
currentRenewalCount(data) == IF data = Null \/ data = 0 THEN 0 ELSE data

paymentPayload_noTimestamp(data, t) ==
    [status |-> "valid", last_valid_at |-> Omitted,
     renewal_count |-> currentRenewalCount(data) + 1]

paymentPayload_noIncrement(data, t) ==
    [status |-> "valid", last_valid_at |-> t,
     renewal_count |-> currentRenewalCount(data)]

\* handlePaymentSuccess from the read's return to its second await
paymentPayload(data, t) ==
    [status |-> "valid", last_valid_at |-> t,
     renewal_count |-> currentRenewalCount(data) + 1]

processWebhookEvent_dotless(event, t) ==
    IF ~event.hasData \/ Falsy(event.user_id) \/ Falsy(event.experience_id)
    THEN <<>>
    ELSE CASE event.type = "membership.went_valid" ->
                <<handleMembershipValid(event.user_id, event.experience_id, t)>>
           [] event.type = "membership.went_invalid" ->
                <<handleMembershipInvalid(event.user_id, event.experience_id)>>
           [] event.type = "payment.succeeded" ->
                <<handlePaymentSuccess(event.user_id, event.experience_id)>>
           [] OTHER -> <<>>

processWebhookEvent_noFieldCheck(event, t) ==
    LET u == IF Falsy(event.user_id) THEN "u1" ELSE event.user_id
        e == IF Falsy(event.experience_id) THEN "e1" ELSE event.experience_id
    IN  CASE event.type \in {"membership.went_valid", "membership.went.valid"} ->
                <<handleMembershipValid(u, e, t)>>
          [] event.type \in {"membership.went_invalid", "membership.went.invalid"} ->
                <<handleMembershipInvalid(u, e)>>
          [] event.type \in {"payment.succeeded", "payment.success"} ->
                <<handlePaymentSuccess(u, e)>>
          [] OTHER -> <<>>

processWebhookEvent_defaultValid(event, t) ==
    IF ~event.hasData \/ Falsy(event.user_id) \/ Falsy(event.experience_id)
    THEN <<>>
    ELSE CASE event.type \in {"membership.went_invalid", "membership.went.invalid"} ->
                <<handleMembershipInvalid(event.user_id, event.experience_id)>>
           [] event.type \in {"payment.succeeded", "payment.success"} ->
                <<handlePaymentSuccess(event.user_id, event.experience_id)>>
           [] OTHER ->
                <<handleMembershipValid(event.user_id, event.experience_id, t)>>

\* processWebhookEvent up to the first await of the handler it calls: the
\* handler invocations it starts (none when the event is dropped, is of an
\* unhandled type, or destructuring a missing data object throws)
processWebhookEvent(event, t) ==
    IF ~event.hasData                       \* TypeError, caught and logged
    THEN <<>>
    ELSE IF Falsy(event.user_id) \/ Falsy(event.experience_id)
    THEN <<>>                               \* missing required fields
    ELSE CASE event.type \in {"membership.went_valid", "membership.went.valid"} ->
                <<handleMembershipValid(event.user_id, event.experience_id, t)>>
           [] event.type \in {"membership.went_invalid", "membership.went.invalid"} ->
                <<handleMembershipInvalid(event.user_id, event.experience_id)>>
           [] event.type \in {"payment.succeeded", "payment.success"} ->
                <<handlePaymentSuccess(event.user_id, event.experience_id)>>
           [] OTHER -> <<>>                 \* unhandled event type

\* ------------------------------------------------------------------- POST
Response(status, started) == [status |-> status, started |-> started]

POST_parseError400(rawBody, signature, webhookSecret, t) ==
    LET body == JSONparse(rawBody)
    IN  IF body.threw
        THEN Response(400, <<>>)
        ELSE IF Falsy(webhookSecret)
        THEN Response(500, <<>>)
        ELSE IF ~verifyWebhookSignature(rawBody, signature, webhookSecret)
        THEN Response(401, <<>>)
        ELSE IF body.isNull
        THEN Response(200, <<>>)
        ELSE Response(200, processWebhookEvent(body, t))

POST_uncaught(rawBody, signature, webhookSecret, t) ==
    LET body == JSONparse(rawBody)
    IN  IF body.threw
        THEN Response(200, <<>>)
        ELSE IF Falsy(webhookSecret)
        THEN Response(500, <<>>)
        ELSE IF ~verifyWebhookSignature(rawBody, signature, webhookSecret)
        THEN Response(401, <<>>)
        ELSE IF body.isNull
        THEN Response(500, <<>>)
        ELSE Response(200, processWebhookEvent(body, t))

\* the route handler: the status it answers with and the handler invocations
\* it leaves running under waitUntil
POST(rawBody, signature, webhookSecret, t) ==
    LET body == JSONparse(rawBody)
    IN  IF body.threw                       \* JSON.parse throws: catch, 200
        THEN Response(200, <<>>)
        ELSE IF Falsy(webhookSecret)
        THEN Response(500, <<>>)
        ELSE IF ~verifyWebhookSignature(rawBody, signature, webhookSecret)
        THEN Response(401, <<>>)
        ELSE IF body.isNull                 \* body.type throws: catch, 200
        THEN Response(200, <<>>)
        ELSE Response(200, processWebhookEvent(body, t))

\* signature === expectedSignature on two strings (sequences of hex
\* digits): lengths first, then digit by digit up to the first difference.
\* steps is the number of digits the comparison reads.
RECURSIVE commonPrefix(_, _)
commonPrefix(a, b) ==
    IF a = <<>> \/ b = <<>> \/ Head(a) # Head(b)
    THEN 0
    ELSE 1 + commonPrefix(Tail(a), Tail(b))

strictEquals(signature, expectedSignature) ==
    [result |-> signature = expectedSignature,
     steps |-> IF Len(signature) # Len(expectedSignature)
               THEN 0
               ELSE IF signature = expectedSignature
               THEN Len(signature)
               ELSE commonPrefix(signature, expectedSignature) + 1]

\* ------------------------------------------------------------ JS numbers
\* A number is finite (v is its value), NaN, Infinity or -Infinity; a value
\* that is not a number at all has kind "undefined".
Num(v) == [kind |-> "finite", v |-> v]
NaN == [kind |-> "NaN", v |-> 0]
Infinity == [kind |-> "Infinity", v |-> 0]
NegInfinity == [kind |-> "-Infinity", v |-> 0]
Undefined == [kind |-> "undefined", v |-> 0]

\* Math.min(a, b) and Math.max(a, b): NaN when either argument is NaN
MathMin(a, b) ==
    CASE a.kind = "NaN" \/ b.kind = "NaN" -> NaN
      [] a.kind = "-Infinity" \/ b.kind = "-Infinity" -> NegInfinity
      [] a.kind = "Infinity" -> b
      [] b.kind = "Infinity" -> a
      [] OTHER -> IF a.v <= b.v THEN a ELSE b

MathMax(a, b) ==
    CASE a.kind = "NaN" \/ b.kind = "NaN" -> NaN
      [] a.kind = "Infinity" \/ b.kind = "Infinity" -> Infinity
      [] a.kind = "-Infinity" -> b
      [] b.kind = "-Infinity" -> a
      [] OTHER -> IF a.v >= b.v THEN a ELSE b

\* ------------------------------------------------------------ churn-model
HIGH_RISK_DAYS == 999
DEFAULT_HIGH_RISK_SCORE == 100
MODEL_CACHE_DURATION == 1000 * 60 * 60      \* milliseconds
Day == 1000 * 3600 * 24                     \* milliseconds

\* The lastValidAt argument: null, the empty string, a string Date cannot
\* parse, or the ISO string of the time ms.
JsNull == [kind |-> "null", ms |-> 0]
EmptyString == [kind |-> "empty", ms |-> 0]
Unparseable == [kind |-> "text", ms |-> 0]
IsoString(ms) == [kind |-> "iso", ms |-> ms]

\* new Date(lastValidAt).getTime()
getTime(lastValidAt) ==
    IF lastValidAt.kind = "iso" THEN Num(lastValidAt.ms) ELSE NaN

calculateDaysSinceLastValid_unclamped(lastValidAt, dateNow) ==
    IF lastValidAt.kind \in {"null", "empty"}
    THEN HIGH_RISK_DAYS
    ELSE IF getTime(lastValidAt).kind = "NaN"
    THEN HIGH_RISK_DAYS
    ELSE (dateNow - getTime(lastValidAt).v) \div Day

\* calculateDaysSinceLastValid, with Date.now() = dateNow
calculateDaysSinceLastValid(lastValidAt, dateNow) ==
    IF lastValidAt.kind \in {"null", "empty"}         \* if (!lastValidAt)
    THEN HIGH_RISK_DAYS
    ELSE IF getTime(lastValidAt).kind = "NaN"
    THEN HIGH_RISK_DAYS
    ELSE LET days == (dateNow - getTime(lastValidAt).v) \div Day   \* Math.floor
         IN  IF days > 0 THEN days ELSE 0                           \* Math.max(0, days)

MODEL_LOAD_TIMEOUT == 10000                 \* milliseconds

\* ChurnProxies
Proxies(days_since_last_valid, renewal_count) ==
    [days_since_last_valid |-> days_since_last_valid,
     renewal_count |-> renewal_count]

\* a number that is neither NaN nor negative, as isValidProxies asks
NonNegativeNumber(n) ==
    /\ n.kind \in {"finite", "Infinity"}        \* typeof 'number', not NaN
    /\ n.kind = "finite" => n.v >= 0

\* isValidProxies returns (TRUE) or throws InvalidInputError (FALSE)
isValidProxies(proxies) ==
    /\ NonNegativeNumber(proxies.days_since_last_valid)
    /\ NonNegativeNumber(proxies.renewal_count)

\* A model load: Promise.race of tf.loadLayersModel and the timeout, with
\* the then and catch callbacks attached.  started is the Date.now() its
\* getModel call read; state is "pending", "resolved" or "rejected"; model
\* is the model file it loaded, once resolved.
NoModel == [kind |-> "none"]

\* tf.loadLayersModel rejects; the timeout of the race fires
LoadFailed == [kind |-> "failed"]
TimedOut == [kind |-> "timeout"]

Load(started) == [started |-> started, state |-> "pending", model |-> NoModel]

\* getModel, called at dateNow: the promise it returns and leaves cached
\* (the index of a load), and the loads started so far
getModel(promise, loadTime, started, dateNow) ==
    LET kept == IF promise # Null /\ dateNow - loadTime > MODEL_CACHE_DURATION
                THEN Null
                ELSE promise
    IN  IF kept = Null
        THEN [modelPromise |-> Len(started) + 1,
              loads |-> Append(started, Load(dateNow))]
        ELSE [modelPromise |-> kept, loads |-> started]

\* What the computation inside tf.tidy comes to: the value of
\* prediction.dataSync()[0], in thousandths, or an exception.
Thrown == [kind |-> "throw", v |-> 0]

\* Math.round(raw * 100)
MathRound100(raw) ==
    IF raw.kind = "finite" THEN Num((raw.v + 5) \div 10) ELSE raw

clamp_wraps(raw) ==
    IF MathRound100(raw).kind = "finite"
    THEN Num(MathRound100(raw).v % 100)
    ELSE MathRound100(raw)

\* Math.max(0, Math.min(100, Math.round(score)))
clamp(raw) == MathMax(Num(0), MathMin(Num(100), MathRound100(raw)))

\* A predictChurn invocation.  pc is "await" (suspended at await
\* getModel(), on load `load`), "returned" (with result) or "threw" (error).
\* owner is the id of the member a batch request scores, 0 for a direct
\* call.  failed records that something failed inside the invocation.
Call(proxies, owner, pc, load, result, error) ==
    [proxies |-> proxies, owner |-> owner, pc |-> pc, load |-> load,
     result |-> result, error |-> error, failed |-> error # "none"]

\* predictChurn from the return of await getModel() on: the model promise
\* was rejected, or tf.tidy ran and came to `outcome`
predictChurnResume(call, loadState, outcome) ==
    CASE loadState = "rejected" ->      \* ModelLoadError is thrown again
           [call EXCEPT !.pc = "threw", !.error = "ModelLoadError", !.failed = TRUE]
      [] outcome.kind = "throw" ->      \* any other error: logged, 100
           [call EXCEPT !.pc = "returned", !.failed = TRUE,
                        !.result = Num(DEFAULT_HIGH_RISK_SCORE)]
      [] OTHER ->
           [call EXCEPT !.pc = "returned", !.result = clamp(outcome)]

\* The model file behind getModelPath(): any layers model, whose output is
\* not constrained by this code.
AnyModel == [kind |-> "any"]

\* The same, followed through fewer of its outputs.
SomeModel == [kind |-> "some"]

\* values of prediction.dataSync()[0], in thousandths: below 0, within
\* [0, 1] (rounding down and up), above 1, not a number, infinite
RawValues == {Num(0 - 500), Num(4), Num(505), Num(1500), NaN, Infinity}

\* The pre-trained model file: one dense unit over the two features, with
\* a sigmoid activation.  The weights are in units of 1 / Scale.
Scale == 10
TrainedModel(w_days, w_renewals, bias) ==
    [kind |-> "linear", w_days |-> w_days, w_renewals |-> w_renewals,
     bias |-> bias]

\* sigmoid(z) in thousandths, as float32 holds it: 0 and 1 at the far ends
Sigmoid(z) ==
    CASE z <= 0 - 8 -> 0
      [] z >= 8 -> 1000
      [] OTHER ->
           <<1, 2, 7, 18, 47, 119, 269, 500,
             731, 881, 953, 982, 993, 998, 999>>[z + 8]

\* the output of the trained model for the features of `proxies`
linearPredict(artifact, proxies) ==
    IF proxies.days_since_last_valid.kind = "finite"
       /\ proxies.renewal_count.kind = "finite"
    THEN {Num(Sigmoid((artifact.w_days * proxies.days_since_last_valid.v
                        + artifact.w_renewals * proxies.renewal_count.v
                        + artifact.bias) \div Scale))}
    ELSE {Num(0), Num(1000), NaN}      \* an infinite feature

\* model.predict(input) inside tf.tidy: what the computation may come to
predict(artifact, proxies) ==
    CASE artifact.kind = "any" -> RawValues \cup {Thrown}
      [] artifact.kind = "some" -> {Num(4), Num(505), NaN, Thrown}
      [] artifact.kind = "linear" -> linearPredict(artifact, proxies)
      [] OTHER -> {Thrown}

outcomes_shared(call, lds) ==
    IF call.pc = "await" /\ lds[call.load].state = "resolved"
    THEN predict(lds[call.load].model,
                 IF calls = <<>> THEN call.proxies ELSE calls[1].proxies)
    ELSE {Thrown}

\* what the resuming invocation `call` may come to
outcomes(call, lds) ==
    IF call.pc = "await" /\ lds[call.load].state = "resolved"
    THEN predict(lds[call.load].model, call.proxies)
    ELSE {Thrown}

\* The continuations that run once loads settle: every invocation awaiting
\* a settled load resumes, invocation i with the outcome out[i].
resumeAll(cs, lds, out) ==
    [i \in DOMAIN cs |->
        IF cs[i].pc = "await" /\ lds[cs[i].load].state # "pending"
        THEN predictChurnResume(cs[i], lds[cs[i].load].state, out[i])
        ELSE cs[i]]

\* the outcomes the resuming invocations may have
Outcomes(cs, lds) ==
    {out \in [DOMAIN cs -> UNION {outcomes(cs[i], lds) : i \in DOMAIN cs}] :
        \A i \in DOMAIN cs : out[i] \in outcomes(cs[i], lds)}

\* predictChurn up to its await: isValidProxies and getModel.  st holds
\* modelPromise, loads and calls; the result is st after the call.
predictChurn(st, proxies, owner, dateNow) ==
    IF ~isValidProxies(proxies)
    THEN [st EXCEPT !.calls = Append(@,
              Call(proxies, owner, "threw", Null, NaN, "InvalidInputError"))]
    ELSE LET g == getModel(st.modelPromise, st.lastModelLoadTime, st.loads, dateNow)
         IN  [st EXCEPT
                !.modelPromise = g.modelPromise,
                !.loads = g.loads,
                !.calls = Append(@,
                    Call(proxies, owner, "await", g.modelPromise, NaN, "none"))]

\* --------------------------------------------------------- predict route
\* member.last_valid_at as the store returns it: null or an ISO string
Timestamptz(v) == IF v = Null THEN JsNull ELSE IsoString(v)

\* the ids of `rows`, ascending
RECURSIVE Ascending(_)
Ascending(ids) ==
    IF ids = {}
    THEN <<>>
    ELSE LET least == CHOOSE i \in ids : \A j \in ids : i <= j
         IN  <<least>> \o Ascending(ids \ {least})

fetchMembers_anyExperience(rows, memberIds, experienceId) ==
    {r \in rows : r.id \in memberIds}

\* .from('members').select(...).in('id', memberIds).eq('experience_id', ...)
fetchMembers(rows, memberIds, experienceId) ==
    {r \in rows : r.id \in memberIds /\ r.experience_id = experienceId}

\* The synchronous part of members.map(async (member) => ...): every
\* callback, in turn, runs to the await inside predictChurn.
RECURSIVE predictAll(_, _, _, _)
predictAll(st, rows, ids, dateNow) ==
    IF ids = <<>>
    THEN st
    ELSE LET member == CHOOSE r \in rows : r.id = Head(ids)
             days_since_last_valid ==
                 calculateDaysSinceLastValid(Timestamptz(member.last_valid_at), dateNow)
             renewal_count == currentRenewalCount(member.renewal_count)
         IN  predictAll(
                 predictChurn(st, Proxies(Num(days_since_last_valid), Num(renewal_count)),
                              member.id, dateNow),
                 rows, Tail(ids), dateNow)

\* predictions[member.id] once the callback of the member has finished:
\* the score, or 100 when predictChurn threw
prediction(call) ==
    IF call.pc = "threw" THEN Num(100) ELSE call.result

\* The batch request from the settling of Promise.all on:
\* tf.engine().endScope() is called with no scope of this code open, and
\* returns or throws; then the response is sent.
respond(b, cs, endScope) ==
    LET own == {i \in DOMAIN cs : cs[i].owner # 0}
    IN  IF b.pc # "scoring" \/ \E i \in own : cs[i].pc = "await"
        THEN b
        ELSE IF endScope = "throws"
        THEN [b EXCEPT !.pc = "responded", !.status = 500]
        ELSE [b EXCEPT
                !.pc = "responded",
                !.status = 200,
                !.predictions =
                    [id \in {cs[i].owner : i \in own} |->
                        prediction(cs[CHOOSE i \in own : cs[i].owner = id])]]

Batch(req, pc, status, fetched) ==
    [pc |-> pc, req |-> req, status |-> status, fetched |-> fetched,
     predictions |-> <<>>]

\* ---------------------------------------------------------------- actions
\* Date.now() when the process starts: far more than an hour after the
\* epoch
Boot == 19 * Day

\* no batch request has been made; no pure function has been called
NoBatch == [pc |-> "none"]
NoProbe == [fn |-> "none"]

NoRequest ==
    [rawBody |-> TamperedBody, signature |-> NoSignature, status |-> 0]

Init ==
    /\ secret \in Secrets
    /\ members = {}
    /\ tasks = <<>>
    /\ now = 0
    /\ nreq = 0
    /\ lastReq = NoRequest
    /\ clock = Boot
    /\ modelPromise = Null
    /\ lastModelLoadTime = 0
    /\ loads = <<>>
    /\ calls = <<>>
    /\ batch = NoBatch
    /\ probe = NoProbe

Receive_awaits(bodies, headers, limit) ==
    /\ nreq < limit
    /\ \E rawBody \in bodies :
         \E signature \in headers[rawBody] :
            LET r == POST(rawBody, signature, secret, now)
                task == r.started[1]
                payload ==
                    IF task.pc = "select"
                    THEN paymentPayload(
                             single(members, task.user_id, task.experience_id), now)
                    ELSE task.payload
            IN  /\ lastReq' = [rawBody |-> rawBody, signature |-> signature,
                               status |-> r.status]
                /\ IF r.started = <<>>
                   THEN tasks' = tasks /\ members' = members
                   ELSE /\ tasks' = tasks \o
                               <<[task EXCEPT !.pc = "done", !.payload = NoPayload]>>
                        /\ members' = upsert(members, task.user_id,
                                             task.experience_id, payload, now)
    /\ nreq' = nreq + 1
    /\ UNCHANGED <<secret, now>>
    /\ UNCHANGED <<scorerVars, probe>>

\* A request arrives and POST runs to its return.  The request carries one
\* of `bodies` and one of the signature headers `headers` gives for it.
Receive(bodies, headers, limit) ==
    /\ nreq < limit
    /\ \E rawBody \in bodies :
         \E signature \in headers[rawBody] :
            LET r == POST(rawBody, signature, secret, now)
            IN  /\ lastReq' = [rawBody |-> rawBody, signature |-> signature,
                               status |-> r.status]
                /\ tasks' = tasks \o r.started
    /\ nreq' = nreq + 1
    /\ UNCHANGED <<secret, members, now>>
    /\ UNCHANGED <<scorerVars, probe>>

\* The store answers the read of handlePaymentSuccess.
Select(i) ==
    /\ tasks[i].pc = "select"
    /\ \E outcome \in {"data", "error", "throw"} :
         LET task == tasks[i]
             after ==
               CASE outcome = "data" ->
                      [task EXCEPT !.pc = "selected",
                                   !.data = single(members, task.user_id, task.experience_id)]
                 [] outcome = "error" ->
                      [task EXCEPT !.pc = "selected", !.data = Null, !.faulted = TRUE]
                 [] OTHER ->
                      [task EXCEPT !.pc = "done", !.faulted = TRUE]
         IN  tasks' = [tasks EXCEPT ![i] = after]
    /\ UNCHANGED <<secret, members, now, nreq, lastReq>>
    /\ UNCHANGED <<scorerVars, probe>>

\* handlePaymentSuccess resumes after the read and sends its upsert.
Resume(i) ==
    /\ tasks[i].pc = "selected"
    /\ tasks' = [tasks EXCEPT ![i] =
                    [@ EXCEPT !.pc = "upsert",
                              !.payload = paymentPayload(tasks[i].data, now),
                              !.data = Null]]
    /\ UNCHANGED <<secret, members, now, nreq, lastReq>>
    /\ UNCHANGED <<scorerVars, probe>>

Upsert_cancelled(i) ==
    /\ tasks[i].pc = "upsert"
    /\ lastReq.status = 0          \* only while the request is still open
    /\ UNCHANGED vars

Upsert_appliesOnError(i) ==
    /\ tasks[i].pc = "upsert"
    /\ \E outcome \in {"ok", "error", "throw"} :
         LET task == tasks[i]
         IN  /\ members' =
                   upsert(members, task.user_id, task.experience_id, task.payload, now)
             /\ tasks' = [tasks EXCEPT ![i] =
                            [task EXCEPT
                               !.pc = "done",
                               !.payload = NoPayload,
                               !.faulted = @ \/ outcome # "ok"]]
    /\ UNCHANGED <<secret, now, nreq, lastReq>>
    /\ UNCHANGED <<scorerVars, probe>>

\* The store answers an upsert and the handler logs the result.
Upsert(i) ==
    /\ tasks[i].pc = "upsert"
    /\ \E outcome \in {"ok", "error", "throw"} :
         LET task == tasks[i]
         IN  /\ members' =
                   IF outcome = "ok"
                   THEN upsert(members, task.user_id, task.experience_id, task.payload, now)
                   ELSE members
             /\ tasks' = [tasks EXCEPT ![i] =
                            [task EXCEPT
                               !.pc = "done",
                               !.payload = NoPayload,
                               !.faulted = @ \/ outcome # "ok"]]
    /\ UNCHANGED <<secret, now, nreq, lastReq>>
    /\ UNCHANGED <<scorerVars, probe>>

\* Time passes.
Tick ==
    /\ now < MaxTime
    /\ now' = now + 1
    /\ UNCHANGED <<secret, members, tasks, nreq, lastReq>>
    /\ UNCHANGED <<scorerVars, probe>>

Process ==
    \/ \E i \in DOMAIN tasks : Select(i)
    \/ \E i \in DOMAIN tasks : Resume(i)
    \/ \E i \in DOMAIN tasks : Upsert(i)
    \/ Tick

\* ------------------------------------------------- scoring module actions
ModuleState ==
    [modelPromise |-> modelPromise, lastModelLoadTime |-> lastModelLoadTime,
     loads |-> loads, calls |-> calls]

\* predictChurn is called directly with one of `inputs`: it runs to its
\* await, and on if the model promise is already settled.
Predict(inputs, limit) ==
    /\ Len(calls) < limit
    /\ \E proxies \in inputs :
         LET st == predictChurn(ModuleState, proxies, 0, clock)
         IN  /\ modelPromise' = st.modelPromise
             /\ loads' = st.loads
             /\ \E out \in Outcomes(st.calls, st.loads) :
                   calls' = resumeAll(st.calls, st.loads, out)
    /\ UNCHANGED <<hookVars, clock, lastModelLoadTime, batch, probe>>

\* Load l settles: one of the model files `artifacts` arrives (then:
\* lastModelLoadTime = now), the load fails, or the timeout fires (catch:
\* modelPromise = null); the invocations awaiting it resume.
Settle(l, artifacts) ==
    /\ loads[l].state = "pending"
    /\ \E how \in {LoadFailed, TimedOut} \cup artifacts :
         /\ how = TimedOut => clock >= loads[l].started + MODEL_LOAD_TIMEOUT
         /\ LET loaded == how \in artifacts
                lds == [loads EXCEPT ![l] =
                          IF loaded
                          THEN [@ EXCEPT !.state = "resolved", !.model = how]
                          ELSE [@ EXCEPT !.state = "rejected"]]
            IN  /\ loads' = lds
                /\ lastModelLoadTime' =
                      IF loaded THEN loads[l].started ELSE lastModelLoadTime
                /\ modelPromise' = IF loaded THEN modelPromise ELSE Null
                /\ \E out \in Outcomes(calls, lds) :
                      /\ calls' = resumeAll(calls, lds, out)
                      /\ \E endScope \in {"returns", "throws"} :
                            batch' = respond(batch, resumeAll(calls, lds, out), endScope)
    /\ UNCHANGED <<hookVars, clock, probe>>

\* The predict route is called: the token, the access and the body are
\* checked, the members are fetched, and every member's predictChurn runs
\* to its await (and on, when the model promise is already settled).
PredictRoute(requests) ==
    /\ batch.pc = "none"
    /\ \E req \in requests :
         CASE req.token = "throws" ->
                /\ batch' = Batch(req, "responded", 500, {})
                /\ UNCHANGED <<modelPromise, loads, calls>>
           [] req.token = "none" ->
                /\ batch' = Batch(req, "responded", 401, {})
                /\ UNCHANGED <<modelPromise, loads, calls>>
           [] ~req.hasAccess ->
                /\ batch' = Batch(req, "responded", 403, {})
                /\ UNCHANGED <<modelPromise, loads, calls>>
           [] req.body = "bad json" ->
                /\ batch' = Batch(req, "responded", 500, {})
                /\ UNCHANGED <<modelPromise, loads, calls>>
           [] req.body = "no array" \/ req.memberIds = {} ->
                /\ batch' = Batch(req, "responded", 400, {})
                /\ UNCHANGED <<modelPromise, loads, calls>>
           [] req.fetch = "error" ->
                /\ batch' = Batch(req, "responded", 500, {})
                /\ UNCHANGED <<modelPromise, loads, calls>>
           [] OTHER ->
                LET fetched == fetchMembers(members, req.memberIds, req.experienceId)
                    ids == {r.id : r \in fetched}
                    st == predictAll(ModuleState, fetched, Ascending(ids), clock)
                IN  /\ modelPromise' = st.modelPromise
                    /\ loads' = st.loads
                    /\ \E out \in Outcomes(st.calls, st.loads) :
                          /\ calls' = resumeAll(st.calls, st.loads, out)
                          /\ \E endScope \in {"returns", "throws"} :
                                batch' = respond(Batch(req, "scoring", 0, ids),
                                                 resumeAll(st.calls, st.loads, out),
                                                 endScope)
    /\ UNCHANGED <<hookVars, clock, lastModelLoadTime, probe>>

\* Time passes, to a moment of ClockTimes; a pending load settles within
\* MODEL_LOAD_TIMEOUT of its start.
ClockTimes ==
    {Boot + h * MODEL_CACHE_DURATION + o :
        h \in 0..MaxHours, o \in {0, 1, MODEL_LOAD_TIMEOUT}}

Advance ==
    /\ \E t \in ClockTimes :
         /\ t > clock
         /\ \A l \in DOMAIN loads :
               loads[l].state = "pending" => t <= loads[l].started + MODEL_LOAD_TIMEOUT
         /\ clock' = t
    /\ UNCHANGED <<hookVars, modelPromise, lastModelLoadTime, loads, calls, batch, probe>>

\* Any sender: every body, with honest, missing and forged signatures.
Next ==
    \/ Receive(IntakeBodies, [b \in IntakeBodies |-> Signatures(b)], MaxRequests)
    \/ Process

Spec == Init /\ [][Next]_vars

\* The trusted sender reporting on one member of one experience.
Honest == [b \in MemberBodies |-> {Hmac(SenderSecret, b)}]

InitMember == Init /\ secret = SenderSecret

NextMember ==
    \/ Receive(MemberBodies, Honest, MaxEvents)
    \/ Process

SpecMember == InitMember /\ [][NextMember]_vars

\* The same sender delivering each event after the last one's processing
\* has finished.
Idle == \A i \in DOMAIN tasks : ~InFlight(tasks[i])

NextSerial ==
    \/ Idle /\ Receive(MemberBodies, Honest, MaxSerial)
    \/ Process

SpecSerial == InitMember /\ [][NextSerial]_vars

\* The same sender delivering validity events at any moment and each
\* payment after the last payment's processing has finished.
ValidityBodies ==
    {b \in MemberBodies :
        b.type \in {"membership.went_valid", "membership.went_invalid"}}

PaymentBodies == {b \in MemberBodies : b.type = "payment.succeeded"}

NoPaymentInFlight ==
    \A i \in DOMAIN tasks :
        tasks[i].fn = "handlePaymentSuccess" => ~InFlight(tasks[i])

NextRenewal ==
    \/ Receive(ValidityBodies, Honest, MaxEvents)
    \/ NoPaymentInFlight /\ Receive(PaymentBodies, Honest, MaxEvents)
    \/ Process

SpecRenewal == InitMember /\ [][NextRenewal]_vars

\* The trusted sender reporting on several members and experiences.
HonestTenants == [b \in TenantBodies |-> {Hmac(SenderSecret, b)}]

NextTenants ==
    \/ Receive(TenantBodies, HonestTenants, MaxTenants)
    \/ Process

SpecTenants == InitMember /\ [][NextTenants]_vars

\* One member's events, with the store answering every operation it is
\* sent: waitUntil keeps a started handler running until its promise
\* settles.
Answer(i) ==
    /\ i \in DOMAIN tasks
    /\ (Select(i) \/ Resume(i) \/ Upsert(i))

NextLive ==
    \/ Receive(MemberBodies, Honest, MaxLive)
    \/ Process

SpecLive ==
    /\ InitMember
    /\ [][NextLive]_vars
    /\ \A i \in 1..MaxLive : WF_vars(Answer(i))

\* Direct callers of predictChurn, with arguments of every kind, and a
\* model file of any content.
ScorerInputs ==
    {Proxies(Num(5), Num(10)), Proxies(Num(999), Num(0)),
     Proxies(Num(0 - 1), Num(0)), Proxies(NaN, Num(1)),
     Proxies(Num(5), Undefined)}

NextScorer ==
    \/ Predict(ScorerInputs, MaxCalls)
    \/ \E l \in DOMAIN loads : Settle(l, {AnyModel})
    \/ Advance

SpecScorer == InitMember /\ [][NextScorer]_vars

\* The predict route called once, over a table of three members in two
\* experiences.
StoredMembers ==
    {[id |-> 1, experience_id |-> "e1", user_id |-> "u1", status |-> "valid",
      last_valid_at |-> Boot - 5 * Day, renewal_count |-> 10,
      created_at |-> Boot - 5 * Day],
     [id |-> 2, experience_id |-> "e1", user_id |-> "u2", status |-> "invalid",
      last_valid_at |-> Null, renewal_count |-> 0, created_at |-> Boot - Day],
     [id |-> 3, experience_id |-> "e2", user_id |-> "u1", status |-> "valid",
      last_valid_at |-> Boot, renewal_count |-> 1, created_at |-> Boot - Day]}

BatchRequests ==
    [token : {"ok", "none", "throws"},
     experienceId : {"e1"},
     hasAccess : BOOLEAN,
     body : {"ids", "no array", "bad json"},
     memberIds : {ids \in SUBSET {1, 2, 3, 4} : Cardinality(ids) <= MaxBatch},
     fetch : {"data", "error"}]

InitBatch ==
    /\ secret = SenderSecret
    /\ members = StoredMembers
    /\ tasks = <<>> /\ now = 0 /\ nreq = 0 /\ lastReq = NoRequest
    /\ clock = Boot
    /\ modelPromise = Null /\ lastModelLoadTime = 0
    /\ loads = <<>> /\ calls = <<>> /\ batch = NoBatch
    /\ probe = NoProbe

NextBatch ==
    \/ PredictRoute(BatchRequests)
    \/ \E l \in DOMAIN loads : Settle(l, {SomeModel})
    \/ Advance

SpecBatch == InitBatch /\ [][NextBatch]_vars

\* One member scored again and again while loads settle and time passes.
CacheInputs == {Proxies(Num(5), Num(10))}

NextCache ==
    \/ Predict(CacheInputs, MaxCached)
    \/ \E l \in DOMAIN loads : Settle(l, {SomeModel})
    \/ Advance

SpecCache == InitMember /\ [][NextCache]_vars

\* The trained model scoring members of every activity and loyalty, at one
\* moment: a score does not depend on the clock.
TrainedModels == {TrainedModel(1, 0 - 3, 0 - 20), TrainedModel(2, 0 - 1, 0)}

TrainedInputs ==
    {Proxies(Num(d), Num(r)) : d \in {0, 30, HIGH_RISK_DAYS}, r \in {0, 10}}

NextTrained ==
    \/ Predict(TrainedInputs, MaxCalls)
    \/ \E l \in DOMAIN loads : Settle(l, TrainedModels)

SpecTrained == InitMember /\ [][NextTrained]_vars

\* A batch request scored while other callers score members of the same
\* features on their own, with the trained model.
AloneInputs ==
    {Proxies(Num(5), Num(10)), Proxies(Num(HIGH_RISK_DAYS), Num(0))}

NextIsolated ==
    \/ PredictRoute(BatchRequests)
    \/ Predict(AloneInputs, MaxCalls)
    \/ \E l \in DOMAIN loads : Settle(l, TrainedModels)

SpecIsolated == InitBatch /\ [][NextIsolated]_vars

\* ------------------------------------------------- pure functions, called
\* The webhook route and the scoring module at rest, as after Init.
AtRest ==
    /\ secret = SenderSecret
    /\ members = {} /\ tasks = <<>> /\ now = 0 /\ nreq = 0 /\ lastReq = NoRequest
    /\ modelPromise = Null /\ lastModelLoadTime = 0
    /\ loads = <<>> /\ calls = <<>> /\ batch = NoBatch

\* times around day boundaries
Times == {Boot + d * Day + o : d \in 0..MaxDays, o \in {0, 1, Day - 1}}

LastValidAts == {JsNull, EmptyString, Unparseable} \cup {IsoString(t) : t \in Times}

\* calculateDaysSinceLastValid is called with some argument at some time
InitDays ==
    /\ AtRest
    /\ clock \in Times
    /\ \E s \in LastValidAts :
          probe = [fn |-> "calculateDaysSinceLastValid", pc |-> "called",
                   lastValidAt |-> s, result |-> 0]

\* ... and returns
CalculateDays ==
    /\ probe.fn = "calculateDaysSinceLastValid"
    /\ probe.pc = "called"
    /\ probe' = [probe EXCEPT
                    !.pc = "returned",
                    !.result = calculateDaysSinceLastValid(probe.lastValidAt, clock)]
    /\ UNCHANGED <<hookVars, scorerVars>>

NextDays == CalculateDays

SpecDays == InitDays /\ [][NextDays]_vars

\* verifyWebhookSignature is called with a payload in either
\* serialization, a secret, and a signature header that is missing, empty,
\* garbage, or the HMAC of this or another payload under this or another
\* secret.
VerifyPayloads == IntakeBodies \cup {Reserialized(b) : b \in IntakeBodies}

VerifySecrets == {"", SenderSecret, "whsec_other"}

VerifySignatures(payload, key) ==
    {NoSignature, EmptySignature, GarbageSignature,
     Hmac(key, payload), Hmac(key, Reserialized(payload)),
     Hmac(key, TamperedBody), Hmac("whsec_forged", payload)}

InitVerify ==
    /\ AtRest
    /\ clock = Boot
    /\ \E payload \in VerifyPayloads, key \in VerifySecrets :
         \E signature \in VerifySignatures(payload, key) :
            probe = [fn |-> "verifyWebhookSignature", pc |-> "called",
                     payload |-> payload, signature |-> signature,
                     secret |-> key, result |-> FALSE]

Verify ==
    /\ probe.fn = "verifyWebhookSignature"
    /\ probe.pc = "called"
    /\ probe' = [probe EXCEPT
                    !.pc = "returned",
                    !.result = verifyWebhookSignature(
                                   probe.payload, probe.signature, probe.secret)]
    /\ UNCHANGED <<hookVars, scorerVars>>

NextVerify == Verify

SpecVerify == InitVerify /\ [][NextVerify]_vars

\* ------------------------------------------------- the comparison, called
\* hmac.digest("hex") of the payload under the secret, and the signatures a
\* sender may claim: strings of hex digits
HexDigits == {"0", "f"}

HexStrings(n) == UNION {[1..k -> HexDigits] : k \in 1..n}

Digests == [1..MaxHex -> HexDigits]

InitCompare ==
    /\ AtRest
    /\ clock = Boot
    /\ \E expectedSignature \in Digests :
         \E first, second \in HexStrings(MaxHex) :
            probe = [fn |-> "strictEquals", pc |-> "called",
                     expectedSignature |-> expectedSignature,
                     first |-> [signature |-> first, result |-> FALSE, steps |-> 0],
                     second |-> [signature |-> second, result |-> FALSE, steps |-> 0]]

\* the verifier compares each of the two claimed signatures with the
\* expected one
Compare ==
    /\ probe.fn = "strictEquals"
    /\ probe.pc = "called"
    /\ LET run(claimed) ==
              LET r == strictEquals(claimed.signature, probe.expectedSignature)
              IN  [claimed EXCEPT !.result = r.result, !.steps = r.steps]
       IN  probe' = [probe EXCEPT !.pc = "returned",
                                  !.first = run(@),
                                  !.second = run(@)]
    /\ UNCHANGED <<hookVars, scorerVars>>

NextCompare == Compare

SpecCompare == InitCompare /\ [][NextCompare]_vars

\* ------------------------------------------------------ reading the state
\* the row of a member (there is one when HasRow holds)
HasRow(rows, user_id, experience_id) == Matching(rows, user_id, experience_id) # {}

Row(rows, user_id, experience_id) ==
    CHOOSE r \in Matching(rows, user_id, experience_id) : TRUE

\* the stored renewal_count of a member, 0 while the member is unseen
RenewalCount(rows, user_id, experience_id) ==
    IF HasRow(rows, user_id, experience_id)
    THEN Row(rows, user_id, experience_id).renewal_count
    ELSE 0

Started(fn) == {i \in DOMAIN tasks : tasks[i].fn = fn}

NoFaults == \A i \in DOMAIN tasks : ~tasks[i].faulted

\* the step is a request being received
Received == nreq' # nreq

Configured == ~Falsy(secret)

\* the signature of a request is the HMAC of its raw body under the secret
Authentic(req) ==
    /\ req.signature.kind = "hmac"
    /\ req.signature.key = secret
    /\ req.signature.msg = req.rawBody

Recognized ==
    {"membership.went_valid", "membership.went.valid",
     "membership.went_invalid", "membership.went.invalid",
     "payment.succeeded", "payment.success"}

\* the step is the store answering the upsert of invocation i
Upserted(i) ==
    /\ i \in DOMAIN tasks
    /\ tasks[i].pc = "upsert"
    /\ tasks'[i].pc = "done"

\* ------------------------------------------------------------------ claims

\* C1: events of one member processed one at a time without store failures,
\* starting from an unseen member: once all are processed, renewal_count
\* equals the number of payment-succeeded events processed, whatever other
\* events came in between.
C1_RenewalCountIsPaymentCount ==
    (Idle /\ NoFaults) =>
        RenewalCount(members, "u1", "e1") =
            Cardinality(Started("handlePaymentSuccess"))

C1_Witness ==
    /\ Idle /\ NoFaults
    /\ Len(tasks) = 3
    /\ tasks[1].fn = "handlePaymentSuccess"
    /\ tasks[2].fn = "handleMembershipInvalid"
    /\ tasks[3].fn = "handlePaymentSuccess"
    /\ RenewalCount(members, "u1", "e1") = 2

\* C2: a request whose signature is missing or is not the HMAC of the raw
\* body changes nothing: no row is created or modified and no handler is
\* started.
C2_BadSignatureChangesNothing ==
    [][(Received /\ ~Authentic(lastReq')) =>
            (members' = members /\ tasks' = tasks)]_vars

C2_Witness ==
    /\ nreq = 2
    /\ Configured
    /\ lastReq.signature = Hmac(SenderSecret, TamperedBody)
    /\ lastReq.rawBody = RawBody("object", "payment.succeeded", TRUE, "u1", "e1")
    /\ lastReq.status = 401
    /\ members # {}
    /\ RenewalCount(members, "u1", "e1") = 0

\* C3: with the secret configured, every request whose signature check
\* fails is answered 401, whatever its body.
C3_BadSignatureIs401 ==
    (nreq > 0 /\ Configured /\ ~Authentic(lastReq)) => lastReq.status = 401

\* C4: with the secret not configured, every request is answered 500 and
\* no event is processed.
C4_NoSecretIs500 ==
    (nreq > 0 /\ ~Configured) => (lastReq.status = 500 /\ tasks = <<>>)

\* C5: the upsert of a membership-went-invalid event on an existing row
\* sets status to invalid and leaves last_valid_at and renewal_count as
\* they were.
C5_InvalidKeepsProxies ==
    [][\A i \in DOMAIN tasks :
          (/\ Upserted(i)
           /\ tasks[i].fn = "handleMembershipInvalid"
           /\ HasRow(members, tasks[i].user_id, tasks[i].experience_id))
          => LET before == Row(members, tasks[i].user_id, tasks[i].experience_id)
                 after == Row(members', tasks[i].user_id, tasks[i].experience_id)
             IN  /\ HasRow(members', tasks[i].user_id, tasks[i].experience_id)
                 /\ after.last_valid_at = before.last_valid_at
                 /\ after.renewal_count = before.renewal_count
                 /\ ~tasks'[i].faulted => after.status = "invalid"]_vars

C5_Witness ==
    /\ Len(tasks) = 2
    /\ tasks[1].fn = "handlePaymentSuccess"
    /\ tasks[2].fn = "handleMembershipInvalid"
    /\ Idle /\ NoFaults
    /\ HasRow(members, "u1", "e1")
    /\ Row(members, "u1", "e1").status = "invalid"
    /\ Row(members, "u1", "e1").last_valid_at = 1
    /\ Row(members, "u1", "e1").renewal_count = 1

\* C6: a payment-succeeded event processed alone without store failures
\* sets status to valid, last_valid_at to the time the handler reads when
\* it builds the upsert, and renewal_count to the stored value plus one
\* (0 plus one when the member has no row).
C6_PaymentIncrementsByOne ==
    [][\A i \in DOMAIN tasks :
          /\ (tasks[i].pc = "selected" /\ tasks'[i].pc = "upsert")
                => tasks'[i].payload.last_valid_at = now
          /\ (/\ Upserted(i)
              /\ tasks[i].fn = "handlePaymentSuccess"
              /\ ~tasks'[i].faulted)
             => LET after == Row(members', tasks[i].user_id, tasks[i].experience_id)
                IN  /\ HasRow(members', tasks[i].user_id, tasks[i].experience_id)
                    /\ after.status = "valid"
                    /\ after.last_valid_at = tasks[i].payload.last_valid_at
                    /\ after.renewal_count =
                          RenewalCount(members, tasks[i].user_id,
                                       tasks[i].experience_id) + 1]_vars

C6_Witness ==
    /\ Len(tasks) = 2
    /\ tasks[1].fn = "handleMembershipInvalid"
    /\ tasks[2].fn = "handlePaymentSuccess"
    /\ Idle /\ NoFaults
    /\ now = 1
    /\ Row(members, "u1", "e1").created_at = 0
    /\ Row(members, "u1", "e1").status = "valid"
    /\ Row(members, "u1", "e1").last_valid_at = 1
    /\ Row(members, "u1", "e1").renewal_count = 1

\* C7: the upsert of a membership-went-valid event on an existing row sets
\* status to valid and last_valid_at to the time the handler read, and
\* leaves renewal_count unchanged; no upsert other than that of a
\* payment-succeeded event changes any renewal_count.
C7_OnlyPaymentCounts ==
    [][/\ \A i \in DOMAIN tasks' \ DOMAIN tasks :
             tasks'[i].fn = "handleMembershipValid"
                => tasks'[i].payload.last_valid_at = now
       /\ \A i \in DOMAIN tasks :
             (Upserted(i) /\ tasks[i].fn # "handlePaymentSuccess")
             => /\ \A k \in Keys :
                      RenewalCount(members', k[2], k[1]) = RenewalCount(members, k[2], k[1])
                /\ (/\ tasks[i].fn = "handleMembershipValid"
                    /\ ~tasks'[i].faulted
                    /\ HasRow(members, tasks[i].user_id, tasks[i].experience_id))
                   => LET after == Row(members', tasks[i].user_id,
                                       tasks[i].experience_id)
                      IN  /\ after.status = "valid"
                          /\ after.last_valid_at = tasks[i].payload.last_valid_at]_vars

C7_Witness ==
    /\ Len(tasks) = 2
    /\ tasks[1].fn = "handlePaymentSuccess"
    /\ tasks[2].fn = "handleMembershipValid"
    /\ Idle /\ NoFaults
    /\ Row(members, "u1", "e1").status = "valid"
    /\ Row(members, "u1", "e1").created_at = 0
    /\ Row(members, "u1", "e1").last_valid_at = 1
    /\ Row(members, "u1", "e1").renewal_count = 1

\* C8: a verified event of an unrecognized type is answered 200 and does
\* nothing: no handler is started, so no row is written or created.
C8_UnknownTypeIsNoOp ==
    [][(/\ Received
        /\ Configured
        /\ Authentic(lastReq')
        /\ lastReq'.rawBody.json = "object"
        /\ lastReq'.rawBody.type \notin Recognized)
       => (lastReq'.status = 200 /\ tasks' = tasks /\ members' = members)]_vars

C8_Witness ==
    /\ nreq = 2
    /\ Configured
    /\ Authentic(lastReq)
    /\ lastReq.rawBody = RawBody("object", "membership.cancelled", TRUE, "u1", "e1")
    /\ lastReq.status = 200
    /\ Len(tasks) = 1
    /\ Idle
    /\ RenewalCount(members, "u1", "e1") = 1

\* C9: a verified event without user_id, without experience_id or without
\* a data object is answered 200 and dropped: no handler is started for
\* it, so no store read or write is made for it.
C9_IncompleteEventDropped ==
    [][(/\ Received
        /\ Configured
        /\ Authentic(lastReq')
        /\ lastReq'.rawBody.json = "object"
        /\ \/ ~lastReq'.rawBody.data
           \/ lastReq'.rawBody.user_id \in {Absent, ""}
           \/ lastReq'.rawBody.experience_id \in {Absent, ""})
       => (lastReq'.status = 200 /\ tasks' = tasks /\ members' = members)]_vars

C9_Witness ==
    /\ nreq = 2
    /\ Configured
    /\ Authentic(lastReq)
    /\ lastReq.rawBody = RawBody("object", "payment.succeeded", TRUE, Absent, "e1")
    /\ lastReq.status = 200
    /\ Len(tasks) = 1
    /\ Idle
    /\ RenewalCount(members, "u1", "e1") = 1

\* C10: the two spellings of an event type are equivalent: a verified
\* request in one spelling leaves the system in the state the same request
\* in the other spelling would have left it in.
Respelled(type) ==
    CASE type = "membership.went.valid" -> "membership.went_valid"
      [] type = "membership.went.invalid" -> "membership.went_invalid"
      [] type = "payment.success" -> "payment.succeeded"
      [] type = "membership.went_valid" -> "membership.went.valid"
      [] type = "membership.went_invalid" -> "membership.went.invalid"
      [] type = "payment.succeeded" -> "payment.success"
      [] OTHER -> type

C10_SpellingsEquivalent ==
    [][(/\ Received
        /\ Configured
        /\ Authentic(lastReq')
        /\ lastReq'.rawBody.json = "object")
       => LET other == [lastReq'.rawBody EXCEPT !.type = Respelled(@)]
              r == POST(other, Hmac(secret, other), secret, now)
          IN  /\ lastReq'.status = r.status
              /\ tasks' = tasks \o r.started
              /\ members' = members]_vars

C10_Witness ==
    /\ Configured
    /\ Authentic(lastReq)
    /\ lastReq.rawBody = RawBody("object", "payment.success", TRUE, "u1", "e1")
    /\ lastReq.status = 200
    /\ Len(tasks) = 2
    /\ tasks[1].fn = "handleMembershipInvalid"
    /\ tasks[2].fn = "handlePaymentSuccess"
    /\ Idle /\ NoFaults
    /\ Row(members, "u1", "e1").status = "valid"
    /\ Row(members, "u1", "e1").renewal_count = 1

\* C11: a request with a valid signature whose body is not valid JSON is
\* answered 200 and changes nothing.
C11_BadJsonAcknowledged ==
    [][(/\ Received
        /\ Configured
        /\ Authentic(lastReq')
        /\ lastReq'.rawBody.json = "bad")
       => (lastReq'.status = 200 /\ tasks' = tasks /\ members' = members)]_vars

C11_Witness ==
    /\ nreq = 2
    /\ Configured
    /\ Authentic(lastReq)
    /\ lastReq.rawBody.json = "bad"
    /\ lastReq.status = 200
    /\ Len(tasks) = 1
    /\ Idle
    /\ members # {}

\* C12: a verified, well-formed request is answered 200 in the step that
\* starts its handler, before any store operation of the handler has been
\* answered (the handler is left in flight and the table is untouched), and
\* no later store answer, good or bad, changes the response.
C12_AcknowledgedBeforeStore ==
    [][/\ (/\ Received
           /\ lastReq'.rawBody.type \in Recognized)
          => /\ lastReq'.status = 200
             /\ members' = members
             /\ Len(tasks') = Len(tasks) + 1
             /\ InFlight(tasks'[Len(tasks')])
       /\ ~Received => lastReq' = lastReq]_vars

C12_Witness ==
    /\ nreq = 1
    /\ lastReq.rawBody.type = "membership.went_valid"
    /\ lastReq.status = 200
    /\ Len(tasks) = 1
    /\ tasks[1].pc = "upsert"
    /\ members = {}

\* C13: every handler started for an acknowledged event eventually
\* finishes, whether its store operations succeed or fail.
C13_StartedHandlersFinish ==
    \A i \in 1..MaxLive :
        (i \in DOMAIN tasks) ~> (i \in DOMAIN tasks /\ tasks[i].pc = "done")

C13_Witness ==
    /\ lastReq.status = 200
    /\ Len(tasks) = 2
    /\ Idle
    /\ tasks[1].faulted
    /\ ~tasks[2].faulted
    /\ members # {}

Applied(i) ==
    /\ tasks[i].pc = "done"
    /\ ~tasks[i].faulted

C15_OneRowPerMember ==
    /\ \A k \in Keys : Cardinality(Matching(members, k[2], k[1])) <= 1
    /\ \A i \in DOMAIN tasks :
          Applied(i) =>
             Cardinality(Matching(members, tasks[i].user_id, tasks[i].experience_id)) = 1

C15_Witness ==
    /\ Len(tasks) = 2
    /\ tasks[1].user_id = "u1" /\ tasks[1].experience_id = "e1"
    /\ tasks[2].user_id = "u1" /\ tasks[2].experience_id = "e1"
    /\ tasks[1].fn = "handlePaymentSuccess" /\ tasks[1].pc = "upsert"
    /\ Applied(2)
    /\ Cardinality(members) = 1

\* C16: the first upsert applied for an unseen member creates its row with
\* the omitted columns defaulted: went-valid creates (valid, the handler's
\* time, 0), went-invalid creates (invalid, null, 0), payment-succeeded
\* creates (valid, the handler's time, 1).
C16_FirstEventCreatesRow ==
    [][\A i \in DOMAIN tasks :
          (/\ Upserted(i)
           /\ members' # members
           /\ ~HasRow(members, tasks[i].user_id, tasks[i].experience_id))
          => LET row == Row(members', tasks[i].user_id, tasks[i].experience_id)
                 fn == tasks[i].fn
             IN  /\ HasRow(members', tasks[i].user_id, tasks[i].experience_id)
                 /\ row.status =
                       IF fn = "handleMembershipInvalid" THEN "invalid" ELSE "valid"
                 /\ row.last_valid_at =
                       IF fn = "handleMembershipInvalid"
                       THEN Null ELSE tasks[i].payload.last_valid_at
                 /\ fn # "handleMembershipInvalid" => row.last_valid_at \in 0..now
                 /\ row.renewal_count =
                       IF fn = "handlePaymentSuccess" THEN 1 ELSE 0]_vars

C16_Witness ==
    /\ Len(tasks) = 2
    /\ Applied(1) /\ Applied(2)
    /\ tasks[1].fn = "handleMembershipInvalid"
    /\ tasks[1].user_id = "u1" /\ tasks[1].experience_id = "e1"
    /\ tasks[2].fn = "handlePaymentSuccess"
    /\ tasks[2].user_id = "u1" /\ tasks[2].experience_id = "e2"
    /\ Row(members, "u1", "e1").status = "invalid"
    /\ Row(members, "u1", "e1").last_valid_at = Null
    /\ Row(members, "u1", "e1").renewal_count = 0
    /\ Row(members, "u1", "e2").status = "valid"
    /\ Row(members, "u1", "e2").last_valid_at = 1
    /\ Row(members, "u1", "e2").renewal_count = 1

\* C17: a membership-went-valid event applied right after another one
\* leaves the row as the first left it, except that last_valid_at holds
\* the later time: same row, same status and renewal_count, no second row.
C17_ValidTwiceIsIdempotent ==
    [][\A i \in DOMAIN tasks :
          (/\ Upserted(i)
           /\ ~tasks'[i].faulted
           /\ tasks[i].fn = "handleMembershipValid"
           /\ i > 1
           /\ tasks[i - 1].fn = "handleMembershipValid"
           /\ Applied(i - 1))
          => LET before == Row(members, "u1", "e1")
                 after == Row(members', "u1", "e1")
             IN  /\ Cardinality(members') = Cardinality(members)
                 /\ after.id = before.id
                 /\ after.status = before.status
                 /\ after.renewal_count = before.renewal_count
                 /\ after.last_valid_at = tasks[i].payload.last_valid_at
                 /\ after.last_valid_at >= before.last_valid_at]_vars

C17_Witness ==
    /\ Len(tasks) = 3
    /\ tasks[1].fn = "handlePaymentSuccess"
    /\ tasks[2].fn = "handleMembershipValid"
    /\ tasks[3].fn = "handleMembershipValid"
    /\ Idle /\ NoFaults
    /\ Cardinality(members) = 1
    /\ Row(members, "u1", "e1").status = "valid"
    /\ Row(members, "u1", "e1").created_at = 0
    /\ Row(members, "u1", "e1").last_valid_at = 1
    /\ Row(members, "u1", "e1").renewal_count = 1

\* C18: every request is answered, with 200, 401 or 500, and with 500 only
\* when the secret is not configured.
C18_ResponseStatus ==
    /\ nreq > 0 =>
          /\ lastReq.status \in {200, 401, 500}
          /\ lastReq.status = 500 => ~Configured
    /\ nreq = 0 => lastReq.status = 0

C18_Witness ==
    /\ nreq = 2
    /\ ~Configured
    /\ lastReq.rawBody.json = "null"
    /\ lastReq.status = 500

\* C19: in every state every row has status valid or invalid and a
\* renewal_count between 0 and the number of payment-succeeded events whose
\* processing has started for its member.
C19_CountNeverOvercounts ==
    \A r \in members :
        /\ r.status \in {"valid", "invalid"}
        /\ r.renewal_count \in 0..Cardinality(
               {i \in DOMAIN tasks :
                   /\ tasks[i].fn = "handlePaymentSuccess"
                   /\ tasks[i].user_id = r.user_id
                   /\ tasks[i].experience_id = r.experience_id})

C19_Witness ==
    /\ Len(tasks) = 3
    /\ \A i \in 1..3 : tasks[i].fn = "handlePaymentSuccess"
    /\ tasks[3].pc = "upsert"
    /\ Applied(1) /\ Applied(2)
    /\ Row(members, "u1", "e1").renewal_count = 2

\* C20: no step deletes a row, and a row's id, key and created_at never
\* change.
C20_RowsKeepIdentity ==
    [][\A r \in members :
          \E q \in members' :
             /\ q.id = r.id
             /\ q.experience_id = r.experience_id
             /\ q.user_id = r.user_id
             /\ q.created_at = r.created_at]_vars

C20_Witness ==
    /\ Len(tasks) = 2
    /\ Applied(1) /\ Applied(2)
    /\ tasks[1].fn = "handleMembershipInvalid"
    /\ tasks[2].fn = "handlePaymentSuccess"
    /\ Cardinality(members) = 1
    /\ HasRow(members, "u1", "e1")
    /\ Row(members, "u1", "e1").id = 1
    /\ Row(members, "u1", "e1").created_at = 0
    /\ Row(members, "u1", "e1").last_valid_at = 1
    /\ Row(members, "u1", "e1").renewal_count = 1

\* C21: for non-negative finite inputs, 999 included, every value
\* predictChurn returns is an integer in [0, 100], whatever raw value the
\* model produces.
FiniteInputs(proxies) ==
    /\ proxies.days_since_last_valid.kind = "finite"
    /\ proxies.days_since_last_valid.v >= 0
    /\ proxies.renewal_count.kind = "finite"
    /\ proxies.renewal_count.v >= 0

C21_ScoreInRange ==
    \A i \in DOMAIN calls :
        (calls[i].pc = "returned" /\ FiniteInputs(calls[i].proxies)) =>
            /\ calls[i].result.kind = "finite"
            /\ calls[i].result.v \in 0..100

\* C22: predictChurn fails closed: an invocation in which anything failed
\* (the model load failed or timed out, the computation threw, the input
\* was rejected) returns 100, and no invocation ends by throwing.
C22_FailsClosed ==
    \A i \in DOMAIN calls :
        calls[i].pc # "await" =>
            /\ calls[i].pc = "returned"
            /\ calls[i].failed => calls[i].result = Num(100)

\* C23: in a batch scoring request a scoring failure for one member does
\* not abort the batch: the request answers 200 with an entry for every
\* fetched member, 100 for each member whose scoring failed and its own
\* score for every other member.
Failed(call) ==
    \/ call.failed
    \/ call.pc = "returned" /\ call.result.kind = "NaN"

OwnCall(id) == calls[CHOOSE i \in DOMAIN calls : calls[i].owner = id]

C23_BatchIsolatesFailures ==
    (/\ batch.pc = "responded"
     /\ batch.fetched # {}
     /\ \E id \in batch.fetched : Failed(OwnCall(id)))
    => /\ batch.status = 200
       /\ DOMAIN batch.predictions = batch.fetched
       /\ \A id \in batch.fetched :
             batch.predictions[id] =
                 IF Failed(OwnCall(id)) THEN Num(100) ELSE OwnCall(id).result

\* C24: calculateDaysSinceLastValid returns 999 for a null, empty or
\* unparseable last_valid_at; otherwise the whole days elapsed since
\* last_valid_at, and 0 when last_valid_at is in the future; the result is
\* never negative.
C24_DaysSinceLastValid ==
    (probe.fn = "calculateDaysSinceLastValid" /\ probe.pc = "returned") =>
        LET arg == probe.lastValidAt
            days == probe.result
        IN  /\ days >= 0
            /\ arg.kind \in {"null", "empty", "text"} => days = 999
            /\ (arg.kind = "iso" /\ arg.ms > clock) => days = 0
            /\ (arg.kind = "iso" /\ arg.ms <= clock) =>
                  /\ days * Day <= clock - arg.ms
                  /\ clock - arg.ms < (days + 1) * Day

C24_Witness ==
    /\ probe.fn = "calculateDaysSinceLastValid"
    /\ probe.pc = "returned"
    /\ probe.lastValidAt = IsoString(Boot + 1)
    /\ clock = Boot + 2 * Day
    /\ probe.result = 1

\* C25: verifyWebhookSignature returns true when the signature is the
\* HMAC of the exact raw payload under the secret, and false when the
\* signature is missing, differs from that value, or was computed over a
\* payload that differs from this one, another serialization of the same
\* JSON value included.
C25_VerifiesExactPayload ==
    (probe.fn = "verifyWebhookSignature" /\ probe.pc = "returned") =>
        LET sig == probe.signature
        IN  /\ sig = Hmac(probe.secret, probe.payload) => probe.result = TRUE
            /\ sig.kind \in {"none", "empty"} => probe.result = FALSE
            /\ sig # Hmac(probe.secret, probe.payload) => probe.result = FALSE
            /\ (sig.kind = "hmac" /\ sig.msg # probe.payload) => probe.result = FALSE
            /\ (sig.kind = "hmac" /\ sig.key # probe.secret) => probe.result = FALSE

C25_Witness ==
    /\ probe.fn = "verifyWebhookSignature"
    /\ probe.pc = "returned"
    /\ probe.secret = SenderSecret
    /\ probe.payload.form = "spaced"
    /\ probe.signature = Hmac(SenderSecret, Reserialized(probe.payload))
    /\ JSONparse(probe.payload) = JSONparse(probe.signature.msg)
    /\ probe.payload.type = "payment.succeeded"
    /\ probe.payload.user_id = "u1"
    /\ probe.result = FALSE

\* C26 as stated: when the payment-succeeded events of one member are
\* processed concurrently, their reads and upserts interleaving in any
\* order, renewal_count after all of them have completed equals the number
\* of payment-succeeded events processed.
Payments == {i \in DOMAIN tasks : tasks[i].fn = "handlePaymentSuccess"}

C26_ConcurrentCountIsExact ==
    (\A i \in DOMAIN tasks : Applied(i)) =>
        RenewalCount(members, "u1", "e1") = Cardinality(Payments)

\* C26 as amended: processed concurrently and without store failures, the
\* payment-succeeded events of one member leave renewal_count at least 1
\* and at most their number: an event whose read comes before the upsert
\* of another is not counted on top of it.
C26_ConcurrentCountIsBounded ==
    ((\A i \in DOMAIN tasks : Applied(i)) /\ Payments # {}) =>
        /\ RenewalCount(members, "u1", "e1") >= 1
        /\ RenewalCount(members, "u1", "e1") <= Cardinality(Payments)

C26_Witness ==
    /\ Len(tasks) = 2
    /\ Payments = {1, 2}
    /\ Applied(1) /\ Applied(2)
    /\ RenewalCount(members, "u1", "e1") = 1

\* C27: last_valid_at is the time of the most recent positive signal.
\* Stated step by step: no step moves a member's last_valid_at to an
\* earlier time, and the upsert of a membership-went-valid or
\* payment-succeeded event leaves it at the later of the time it held and
\* the time the event's handler took; so once all events have completed it
\* is the latest time any of them took.
LastValidAt(rows) ==
    IF HasRow(rows, "u1", "e1") THEN Row(rows, "u1", "e1").last_valid_at ELSE Null

C27_LastValidAtIsLatest ==
    [][/\ LastValidAt(members') >= LastValidAt(members)
       /\ \A i \in DOMAIN tasks :
             (/\ Upserted(i)
              /\ ~tasks'[i].faulted
              /\ tasks[i].fn # "handleMembershipInvalid")
             => LastValidAt(members') =
                   IF tasks[i].payload.last_valid_at >= LastValidAt(members)
                   THEN tasks[i].payload.last_valid_at
                   ELSE LastValidAt(members)]_vars

\* C28: scoring is monotonic in each feature with the other held fixed.
\* Of two scores predictChurn returned from the same model, the one for
\* more days since the last valid signal and the same renewal count is not
\* lower, and the one for more renewals and the same days is not higher.
Scored(i) == calls[i].pc = "returned" /\ ~calls[i].failed

SameModel(i, j) == loads[calls[i].load].model = loads[calls[j].load].model

C29_ConstantTimeCompare ==
    (/\ probe.fn = "strictEquals"
     /\ probe.pc = "returned"
     /\ Len(probe.first.signature) = Len(probe.expectedSignature)
     /\ Len(probe.second.signature) = Len(probe.expectedSignature)
     /\ ~probe.first.result
     /\ ~probe.second.result)
    => probe.first.steps = probe.second.steps

\* C30: model caching.  Once a load has succeeded, a getModel call made
\* within MODEL_CACHE_DURATION of the recorded load time starts no new load
\* and returns the cached promise; a call made later than that, with a
\* model cached, discards it and starts a new load, which becomes the
\* cached one.
GetModelCalled ==
    /\ Len(calls') = Len(calls) + 1
    /\ calls'[Len(calls')].error # "InvalidInputError"

Loaded == \E l \in DOMAIN loads : loads[l].state = "resolved"

C30_ModelCaching ==
    [][(GetModelCalled /\ Loaded) =>
         /\ (clock - lastModelLoadTime <= MODEL_CACHE_DURATION) =>
               /\ loads' = loads
               /\ modelPromise # Null
               /\ calls'[Len(calls')].load = modelPromise
         /\ (clock - lastModelLoadTime > MODEL_CACHE_DURATION /\ modelPromise # Null) =>
               /\ Len(loads') = Len(loads) + 1
               /\ modelPromise' = Len(loads')]_vars

\* C31: scoring calls are isolated.  The entry of each member of a batch
\* is the score of that member's own days_since_last_valid and
\* renewal_count under the model its call awaited (100 when that load
\* failed), and any two calls scoring the same features with the same
\* model, in the batch or alone, return the same score.
OwnRow(id) == CHOOSE r \in members : r.id = id

OwnProxies(id) ==
    Proxies(Num(calculateDaysSinceLastValid(
                    Timestamptz(OwnRow(id).last_valid_at), clock)),
            Num(currentRenewalCount(OwnRow(id).renewal_count)))

ScoreOf(proxies, load) ==
    IF load.state = "rejected"
    THEN Num(100)
    ELSE clamp(CHOOSE raw \in linearPredict(load.model, proxies) : TRUE)

C31_ScoringIsIsolated ==
    /\ (batch.pc = "responded" /\ batch.status = 200) =>
          \A id \in batch.fetched :
              /\ OwnCall(id).proxies = OwnProxies(id)
              /\ batch.predictions[id] =
                    ScoreOf(OwnProxies(id), loads[OwnCall(id).load])
    /\ \A i, j \in DOMAIN calls :
          (/\ Scored(i) /\ Scored(j) /\ SameModel(i, j)
           /\ calls[i].proxies = calls[j].proxies)
          => calls[i].result = calls[j].result

C31_Witness ==
    /\ batch.pc = "responded" /\ batch.status = 200
    /\ batch.fetched = {1, 2}
    /\ Len(calls) = 3
    /\ calls[1].owner = 0 /\ Scored(1)
    /\ calls[1].proxies = OwnProxies(1)
    /\ calls[1].load # OwnCall(1).load
    /\ calls[1].result = Num(50)
    /\ batch.predictions[1] = Num(50)
    /\ batch.predictions[2] = Num(100)

\* C32: the batch scoring result has an entry exactly for the requested
\* identifiers whose record belongs to the caller's verified experience.
\* A record of another experience is never scored or returned, even when
\* its identifier is requested, and a requested identifier with no record
\* in the experience has no entry.
InScope(req) ==
    {id \in req.memberIds :
        \E r \in members : r.id = id /\ r.experience_id = req.experienceId}

C32_OnlyOwnScopeIsScored ==
    batch.pc \in {"scoring", "responded"} =>
        /\ {calls[i].owner : i \in DOMAIN calls} \subseteq InScope(batch.req)
        /\ DOMAIN batch.predictions \subseteq InScope(batch.req)
        /\ (batch.pc = "responded" /\ batch.status = 200) =>
              DOMAIN batch.predictions = InScope(batch.req)

C32_Witness ==
    /\ batch.pc = "responded" /\ batch.status = 200
    /\ batch.req.memberIds = {1, 3}
    /\ DOMAIN batch.predictions = {1}
    /\ {calls[i].owner : i \in DOMAIN calls} = {1}

\* C33: in every reachable state of the store, under any interleaving, a
\* record with status valid has a last_valid_at that is not null, and so
\* has a record with renewal_count above 0.
C33_ValidHasLastValidAt ==
    \A r \in members :
        /\ r.status = "valid" => r.last_valid_at # Null
        /\ r.renewal_count > 0 => r.last_valid_at # Null

C33_Witness ==
    /\ HasRow(members, "u1", "e1")
    /\ Row(members, "u1", "e1").status = "invalid"
    /\ Row(members, "u1", "e1").renewal_count = 1
    /\ Row(members, "u1", "e1").last_valid_at # Null
    /\ \E i \in DOMAIN tasks : InFlight(tasks[i])

\* C34: processing an event for one (experience_id, user_id) pair leaves
\* the record of every other pair unchanged, a pair of the same user in
\* another experience and a pair of another user in the same experience
\* included: a step changes the rows of a pair only by answering the
\* upsert of an event for that pair.  And the read of a payment takes its
\* renewal_count from the record of its own pair, or finds no data.
OtherRows(rows, user_id, experience_id) ==
    {r \in rows : r.user_id # user_id \/ r.experience_id # experience_id}

Selected(i) ==
    /\ i \in DOMAIN tasks
    /\ tasks[i].pc = "select"
    /\ tasks'[i].pc = "selected"

C34_OtherMembersUntouched ==
    [][/\ \A i \in DOMAIN tasks :
             Upserted(i) =>
                 OtherRows(members', tasks[i].user_id, tasks[i].experience_id)
                   = OtherRows(members, tasks[i].user_id, tasks[i].experience_id)
       /\ (\A i \in DOMAIN tasks : ~Upserted(i)) => members' = members
       /\ \A i \in DOMAIN tasks :
             Selected(i) =>
                 tasks'[i].data \in
                     {Null} \cup {r.renewal_count :
                                    r \in Matching(members, tasks[i].user_id,
                                                   tasks[i].experience_id)}]_vars

C34_Witness ==
    /\ Len(tasks) = 2
    /\ Started("handlePaymentSuccess") = {1, 2}
    /\ ~InFlight(tasks[1]) /\ ~InFlight(tasks[2])
    /\ tasks[1].user_id = tasks[2].user_id
    /\ tasks[1].experience_id # tasks[2].experience_id
    /\ Cardinality(members) = 2
    /\ \A r \in members : r.renewal_count = 1

\* C35 as stated: the stored renewal_count of a member never decreases.
\* For every interleaving of concurrently processed events of the member,
\* with no store failures, each store write leaves renewal_count greater
\* than or equal to its value before the write.
C35_CountNeverDecreases ==
    [][NoFaults' =>
         RenewalCount(members', "u1", "e1") >= RenewalCount(members, "u1", "e1")]_vars

\* C35 as amended: with no store failures, the write of a validity event
\* leaves renewal_count as it was, and the write of a payment-succeeded
\* event leaves it one above the value the event's own read returned (0
\* when it found no record): the read returns the stored count, the
\* handler adds one to it, and the upsert stores that sum, whatever other
\* payments stored in between.
Resumed(i) ==
    /\ i \in DOMAIN tasks
    /\ tasks[i].pc = "selected"
    /\ tasks'[i].pc = "upsert"

ReadCount(data) == IF data = Null THEN 0 ELSE data

C35_WriteIsOwnReadPlusOne ==
    [][NoFaults' =>
         \A i \in DOMAIN tasks :
            /\ Selected(i) =>
                  ReadCount(tasks'[i].data) = RenewalCount(members, "u1", "e1")
            /\ Resumed(i) =>
                  tasks'[i].payload.renewal_count = ReadCount(tasks[i].data) + 1
            /\ (Upserted(i) /\ tasks[i].fn = "handlePaymentSuccess") =>
                  RenewalCount(members', "u1", "e1") = tasks[i].payload.renewal_count
            /\ (Upserted(i) /\ tasks[i].fn # "handlePaymentSuccess") =>
                  RenewalCount(members', "u1", "e1") = RenewalCount(members, "u1", "e1")]_vars

C35_Witness ==
    /\ NoFaults
    /\ Len(tasks) = 3
    /\ Started("handlePaymentSuccess") = {1, 2, 3}
    /\ tasks[1].pc = "upsert"
    /\ tasks[1].payload.renewal_count = 1
    /\ ~InFlight(tasks[2]) /\ ~InFlight(tasks[3])
    /\ RenewalCount(members, "u1", "e1") = 2

\* C36: when the read of a payment-succeeded event fails or returns no
\* data although the record exists with renewal_count = n >= 1, the stored
\* renewal_count is not lowered: the write the event then makes, if any,
\* leaves the count at n or sets it to n + 1, never to 1 over a higher n.
C36_FailedReadKeepsCount ==
    [][\A i \in DOMAIN tasks :
          (/\ Upserted(i)
           /\ tasks[i].fn = "handlePaymentSuccess"
           /\ tasks[i].faulted                      \* its read had failed
           /\ RenewalCount(members, "u1", "e1") >= 1)
          => RenewalCount(members', "u1", "e1") \in
                {RenewalCount(members, "u1", "e1"),
                 RenewalCount(members, "u1", "e1") + 1}]_vars

\* C37: validity events cannot cause a lost renewal.  When one payment of
\* a member is processed at a time, concurrently with any number of
\* went-valid and went-invalid events of the member, the payment's upsert,
\* once stored after a read that succeeded, leaves renewal_count exactly
\* one above its value before, and no other step changes renewal_count.
C37_ValidityKeepsRenewal ==
    [][/\ \A i \in DOMAIN tasks :
             (/\ Upserted(i)
              /\ tasks[i].fn = "handlePaymentSuccess"
              /\ ~tasks'[i].faulted)
             => RenewalCount(members', "u1", "e1")
                  = RenewalCount(members, "u1", "e1") + 1
       /\ (\A i \in DOMAIN tasks :
               ~(Upserted(i) /\ tasks[i].fn = "handlePaymentSuccess"))
          => RenewalCount(members', "u1", "e1")
               = RenewalCount(members, "u1", "e1")]_vars

C37_Witness ==
    /\ Len(tasks) = 3
    /\ tasks[1].fn = "handlePaymentSuccess"
    /\ tasks[2].fn = "handlePaymentSuccess"
    /\ tasks[3].fn = "handleMembershipInvalid"
    /\ Applied(1) /\ Applied(2) /\ Applied(3)
    /\ HasRow(members, "u1", "e1")
    /\ Row(members, "u1", "e1").status = "valid"
    /\ Row(members, "u1", "e1").renewal_count = 2

\* C38: concurrent getModel calls share a pending load.  A call made while
\* a model load is in flight returns that load, so at no time are two
\* model loads in flight, and all invocations suspended at await getModel()
\* wait for the same load.
InFlightLoads == {l \in DOMAIN loads : loads[l].state = "pending"}

C38_OneLoadInFlight ==
    /\ Cardinality(InFlightLoads) <= 1
    /\ \A i, j \in DOMAIN calls :
          (calls[i].pc = "await" /\ calls[j].pc = "await")
          => calls[i].load = calls[j].load

====
